---------------------------- MODULE Spec2Model ----------------------------
(***************************************************************************)
(* Firehose collector (src/firehose/firehose_collector.py): the bounded   *)
(* in-memory EventBuffer, the BatchWorker polling loop, the EventDatabase  *)
(* batch write and the lifespan startup/shutdown sequence.                 *)
(*                                                                         *)
(* Two specifications:                                                     *)
(*   Spec     the application: the module-level objects of lines 314-316   *)
(*            (EventBuffer() with the default max_size), request handlers  *)
(*            calling add_event, the worker task and lifespan.             *)
(*   SpecBuf  the EventBuffer class on its own: a buffer constructed with  *)
(*            any max_size, callers of add_event and of get_batch.         *)
(*                                                                         *)
(* asyncio runs one coroutine at a time and switches only at an await, so  *)
(* an action is the code between two suspension points.  Acquiring the     *)
(* buffer lock is a suspension point; add_event's body is further split    *)
(* into its test (line 106) and its branch (lines 107-112), which is finer *)
(* than asyncio interleaves and so covers every real schedule.             *)
(***************************************************************************)
EXTENDS Integers, Sequences, FiniteSets

\* ------------------------------------------------------------------ sizes
\* Program constants, scaled down from the source's values (100000, 100,
\* 1.0 s) so that full queues, size triggers and timeouts occur in small runs.
MAX_QUEUE_SIZE == 3
BATCH_SIZE == 2
BATCH_TIMEOUT == 2
\* InventorySystem: the stock set by init_database and reset_inventory,
\* scaled down from 100.
INITIAL_STOCK == 2
\* The poll interval is the unit of the clock.
WORKER_SLEEP == 1

\* Bounds of the model.
\* Number of reset_inventory and init_database calls after the first start.
MaxAdminOps == 2
\* Number of direct get_stats calls in one run.
MaxStats == 2
\* Total number of add_event calls in one run.
MaxEvents == 4
\* The clock stops advancing at MaxTime.
MaxTime == 2
\* The clock of a timed run stops advancing at TimedHorizon.
TimedHorizon == 4

\* InventorySystem: the concurrent buyers (threads or processes), one
\* purchase_item call each; more buyers than INITIAL_STOCK.
Buyers == {"b1", "b2", "b3"}

\* Background transactions of the ledger, and the values they are called with.
Tasks == {"t1", "t2", "t3"}
MaxAmount == 2
Amounts == 1..MaxAmount

\* Rows of the users table after init_db (lines 35-42), with the balances
\* scaled down; NoUser is an id with no row.
SeedBalance == [u \in {1, 2} |-> IF u = 1 THEN 3 ELSE 1]
NoUser == 9
UserIds == DOMAIN SeedBalance \cup {NoUser}

\* The concurrent request handlers (callers of add_event).
Producers == {"p1", "p2"}

\* max_size values an EventBuffer is constructed with under SpecBuf: below,
\* at and above MAX_QUEUE_SIZE.
MaxSizes == 1..(MAX_QUEUE_SIZE + 1)

VARIABLES
    \* EventBuffer
    max_size,          \* deque maxlen (constructor argument)
    queue,             \* self.queue, head first
    lock,              \* owner of self.lock, or "free"
    total_received,
    total_processed,
    total_dropped,
    \* add_event callers
    ppc,               \* producer -> "idle" | "add_wait" | "add_check" | "add_apply"
    pevent,            \* producer -> event being submitted (0: none)
    pfull,             \* producer -> outcome of the test on line 106
    \* BatchWorker
    wpc,
    running,
    last_batch_time,
    w_queue_size,      \* stats['queue_size'] of the current poll
    w_current_time,    \* current_time of the current poll
    w_batch,           \* batch of the current poll
    w_inserted,        \* inserted of the current poll
    w_call,            \* index in inserts of the write in flight (0: none)
    \* lifespan and EventDatabase
    lpc,
    db,                \* "none" | "open" | "closed"
    remaining_batch,
    l_call,
    rows,              \* committed rows of the events table, in order
    txn,               \* rows inserted in the connection's open transaction
    \* a direct caller of get_batch (SpecBuf only)
    cpc,
    c_n,
    \* flush settings read by the worker (the globals of lines 32-33)
    cfg_batch_size,
    cfg_batch_timeout,
    \* a direct caller of get_stats (SpecBuf only)
    spc,
    stats_calls,       \* history: [result, seen] of each completed get_stats
                       \* (seen: the buffer's fields at the time of the read)
    \* clock
    now,
    timed,             \* TRUE: the clock advances only across the worker's sleep
    slept,             \* timed runs: the current sleep has lasted WORKER_SLEEP
    \* history (not read by the program)
    nextId,            \* number of add_event calls started
    results,           \* <<event, returned value>> of each completed add_event
    extracted,         \* every event returned by get_batch, in order
    inserts,           \* every insert_batch call: [by, batch, ok, at, before, t]
                       \* (at: db when called; before: the queue it was
                       \* taken from; t: current_time of the poll)
    stop_accepted,     \* events accepted when stop() was called
    drains,            \* the shutdown drain's get_batch calls:
                       \* [n, before, batch, after, worker]
    \* InventorySystem (src/InventorySystem/app.py)
    stock,             \* inventory.stock of ITEM_ID (committed)
    purchases,         \* number of committed rows of the purchases table
    dblock,            \* holder of the database's write lock, or "free"
    bpc,               \* buyer -> "idle" | "begin" | "body" | "done"
    bres,              \* buyer -> result of its purchase_item call
    admin_ops,         \* number of reset_inventory / init_database calls
    sold,              \* history: successful purchases since the last reset
    last_admin,        \* history: "init" | "reset", the last call that set the stock
    attempts,          \* history: buyers whose call began after that call
    \* legacy_ledger (src/legacy_ledger/legacy_ledger_fixed.py)
    balance,           \* users.balance by user id (committed)
    llock,             \* holder of ledger.db's write lock, or "free"
    tpc,               \* task -> "idle" | "sleep" | "select" | "update" | "done"
    tuser,             \* task -> user_id of its transaction
    tamount,           \* task -> amount of its transaction
    tres,              \* task -> what process_transaction_background returned
    admitted,          \* timed runs: event -> [at: time of its admission,
                       \* ahead: events queued before it at that time]
    responses          \* status code of each completed ingest_event, in the
                       \* order of results

bufVars == <<max_size, queue, lock, total_received, total_processed, total_dropped>>
prodVars == <<ppc, pevent, pfull>>
workerVars == <<wpc, running, last_batch_time, w_queue_size, w_current_time,
                w_batch, w_inserted, w_call>>
lifeVars == <<lpc, db, remaining_batch, l_call>>
clientVars == <<cpc, c_n>>
histVars == <<nextId, results, extracted, inserts, stop_accepted, drains>>
ledVars == <<balance, llock, tpc, tuser, tamount, tres>>
invVars == <<stock, purchases, dblock, bpc, bres, admin_ops, sold, last_admin, attempts>>
dbVars == <<rows, txn>>
statVars == <<spc, stats_calls>>
cfgVars == <<cfg_batch_size, cfg_batch_timeout, timed>>
\* Every variable of the firehose collector.
fireVars == <<bufVars, prodVars, workerVars, lifeVars, clientVars, cfgVars, dbVars,
              statVars, now, slept, histVars, admitted, responses>>
vars == <<bufVars, prodVars, workerVars, lifeVars, clientVars, cfgVars, invVars, ledVars, dbVars, statVars,
          now, slept,
          histVars, admitted, responses>>

\* ------------------------------------------------------------ pure parts

Min(a, b) == IF a <= b THEN a ELSE b

SeqToSet(s) == {s[i] : i \in 1..Len(s)}

\* Mutant of DequeAppend: a deque without maxlen.
DequeAppendUnbounded(q, e, m) == Append(q, e)

\* deque(maxlen=m).append(e): a full deque discards its head.
DequeAppend(q, e, m) ==
    IF m = 0 THEN q
    ELSE IF Len(q) >= m THEN Append(Tail(q), e)
    ELSE Append(q, e)

\* Mutant of LockFree: the lock is taken without waiting for its holder.
LockIgnored(l) == TRUE

\* The asyncio.Lock can be taken when nobody holds it.
LockFree(l) == l = "free"

\* Mutant of PopLoop: pop() from the tail instead of popleft().
RECURSIVE PopLoopRight(_, _, _)
PopLoopRight(q, batch, i) ==
    IF i = 0 THEN <<batch, q>>
    ELSE IF q # <<>>
      THEN PopLoopRight(SubSeq(q, 1, Len(q) - 1), Append(batch, q[Len(q)]), i - 1)
    ELSE PopLoopRight(q, batch, i - 1)

\* Mutant of LockAfterGetBatch: the caller keeps the lock after get_batch.
LockKept(owner) == owner

\* Lines 121-126: "async with self.lock" ends when get_batch returns, before
\* the caller does anything with the batch.
LockAfterGetBatch(owner) == "free"

\* The loop of get_batch: i iterations of "if self.queue: popleft".
\* Returns <<batch, rest of the queue>>.
RECURSIVE PopLoop(_, _, _)
PopLoop(q, batch, i) ==
    IF i = 0 THEN <<batch, q>>
    ELSE IF q # <<>> THEN PopLoop(Tail(q), Append(batch, Head(q)), i - 1)
    ELSE PopLoop(q, batch, i - 1)

\* Mutant of GetBatch: the batch is read and the queue is left as it was.
GetBatchPeek(q, batch_size) == <<PopLoop(q, <<>>, Min(batch_size, Len(q)))[1], q>>

\* Mutant of GetBatch: everything queued is taken.
GetBatchAll(q, batch_size) == PopLoop(q, <<>>, Len(q))

\* get_batch(batch_size) on queue q.
GetBatch(q, batch_size) == PopLoop(q, <<>>, Min(batch_size, Len(q)))

\* Mutant of GetStats: total_received counts the rejected events too.
GetStatsMixed(q, tr, tp, td) ==
    [queue_size |-> Len(q), total_received |-> tr + td,
     total_processed |-> tp, total_dropped |-> td]

\* Lines 131-136: the dictionary get_stats returns.
GetStats(q, tr, tp, td) ==
    [queue_size |-> Len(q), total_received |-> tr,
     total_processed |-> tp, total_dropped |-> td]

\* Mutant of Respond: every submission is answered 202.
RespondAccepted(added) == 202

\* Lines 394-406: ingest_event answers 202, or raises HTTPException(503)
\* when add_event returned False.
Respond(added) == IF added THEN 202 ELSE 503

\* The test of line 106.
QueueFull(q) == Len(q) >= MAX_QUEUE_SIZE

\* Mutant of ShouldProcess: the timeout fires on an empty queue too.
ShouldProcessNoGuard(queue_size, since) ==
    \/ queue_size >= cfg_batch_size
    \/ since >= cfg_batch_timeout

\* Mutant of ShouldProcess: the size trigger alone.
ShouldProcessSizeOnly(queue_size, since) == queue_size >= cfg_batch_size

\* should_process of _process_batch.
ShouldProcess(queue_size, since) ==
    \/ queue_size >= cfg_batch_size
    \/ (queue_size > 0 /\ since >= cfg_batch_timeout)

\* Mutant of DrainCount: the drain extracts one ordinary batch.
DrainCountBatch == BATCH_SIZE

\* max_count of the shutdown drain's get_batch.
DrainCount == MAX_QUEUE_SIZE

\* Mutant of Processed: the counter is set to the last write's count.
ProcessedReset(tp, inserted) == inserted

\* Mutant of Processed: every written event is counted twice.
ProcessedTwice(tp, inserted) == tp + 2 * inserted

\* Mutant of Processed: counts the write, not its events.
ProcessedByOne(tp, inserted) == tp + 1

\* Line 300: self.buffer.total_processed += inserted.
Processed(tp, inserted) == tp + inserted

\* Mutant of WorkerFinished: the drain does not wait for the worker task.
WorkerNotAwaited(w) == TRUE

\* Line 351: await worker_task completes when start() has returned.
WorkerFinished(w) == w = "w_done"

\* Mutant of InsertReturn: a failed write reports its events as written.
InsertReturnAlways(ok, events) == Len(events)

\* Lines 218 and 223: insert_batch returns len(events), or 0 after a failure.
InsertReturn(ok, events) == IF ok THEN Len(events) ELSE 0

\* Mutant of ResetFlushTime: last_batch_time is left as it was.
KeepFlushTime(last, current_time) == last

\* Line 306: self.last_batch_time = current_time.
ResetFlushTime(last, current_time) == current_time

\* Mutant of AfterFailedWrite: a failed write ends the worker loop.
AfterFailedWriteExit == "w_done"

\* Lines 302-306 and 269: after a failed write the poll ends and the worker sleeps.
AfterFailedWrite == "w_sleep"

\* Mutant of LoopContinues: the loop does not look at self.running.
LoopForever(r) == TRUE

\* Line 266: while self.running.
LoopContinues(r) == r

\* Mutant of StartupWorker: the task is created whatever initialize did.
StartupWorkerAlways(ok) == "w_init"

\* Lines 337-339: create_task is reached only when initialize returned.
StartupWorker(ok) == IF ok THEN "w_init" ELSE "w_none"

\* insert_batch can commit only on an open connection; it can always fail
\* (any exception is caught and 0 is returned).
InsertOutcomes(d) == IF d = "open" THEN {TRUE, FALSE} ELSE {FALSE}

\* Lines 213-217 on a failing call: how many rows executemany inserted before
\* the exception (all of them when commit() is what raised); none on a
\* connection that is not open.
FailedPrefixes(d, events) == IF d = "open" THEN 0..Len(events) ELSE {0}

\* Line 217: commit() commits the connection's transaction, which holds
\* every row inserted since the last commit.
CommitRows(rws, tx, events) == rws \o tx \o events

\* The except branch (lines 220-223) returns 0 without a rollback: the rows
\* already inserted stay in the open transaction.
KeepRows(tx, events, k) == tx \o SubSeq(events, 1, k)

\* Mutant of LockAfterBegin: the transaction starts without the write lock.
LockNotTaken(t) == "free"

\* legacy_ledger_fixed.py line 127: BEGIN IMMEDIATE makes the connection the
\* holder of the database's write lock.
LockAfterBegin(t) == t

\* legacy_ledger_fixed.py line 140, negated: the transaction goes on.
Sufficient(current_balance, amount) == ~(current_balance < amount)

\* Mutant of SelectForUpdate: the query is accepted and returns the row.
SelectPlain(st) == [error |-> FALSE, stock |-> st]

\* app.py lines 120-126: "SELECT stock ... FOR UPDATE".  SQLite has no
\* FOR UPDATE clause: execute() raises sqlite3.OperationalError
\* (near "FOR": syntax error) and no row is read.
SelectForUpdate(st) == [error |-> TRUE, stock |-> 0]

\* Mutant of PurchaseTxn: the UPDATE precedes the failing statement and the
\* failure is not rolled back.
PurchaseTxnNoRollback(st, n) ==
    LET row == SelectForUpdate(st) IN
    IF row.error THEN <<"error", IF st > 0 THEN st - 1 ELSE st, n>>
    ELSE IF row.stock <= 0 THEN <<"sold_out", st, n>>
    ELSE <<"ok", row.stock - 1, n + 1>>

\* app.py lines 120-173: what a purchase_item call that holds the write lock
\* returns and leaves committed, as <<result, stock, purchase rows>>.  An
\* exception leaves the with block, which rolls back (lines 77-79).
PurchaseTxn(st, n) ==
    LET row == SelectForUpdate(st) IN
    IF row.error THEN <<"error", st, n>>
    ELSE IF row.stock <= 0 THEN <<"sold_out", st, n>>
    ELSE <<"ok", row.stock - 1, n + 1>>

\* ------------------------------------------------------------------ Init

InitCommon ==
    /\ queue = <<>>
    /\ lock = "free"
    /\ total_received = 0
    /\ total_processed = 0
    /\ total_dropped = 0
    /\ ppc = [p \in Producers |-> "idle"]
    /\ pevent = [p \in Producers |-> 0]
    /\ pfull = [p \in Producers |-> FALSE]
    /\ wpc = "w_none"
    /\ running = FALSE
    /\ last_batch_time = 0
    /\ w_queue_size = 0
    /\ w_current_time = 0
    /\ w_batch = <<>>
    /\ w_inserted = 0
    /\ w_call = 0
    /\ db = "none"
    /\ rows = <<>>
    /\ txn = <<>>
    /\ remaining_batch = <<>>
    /\ l_call = 0
    /\ cpc = "c_idle"
    /\ c_n = 0
    /\ spc = "s_idle"
    /\ stats_calls = <<>>
    /\ stock = INITIAL_STOCK
    /\ purchases = 0
    /\ dblock = "free"
    /\ bpc = [b \in Buyers |-> "idle"]
    /\ bres = [b \in Buyers |-> "none"]
    /\ admin_ops = 0
    /\ sold = 0
    /\ last_admin = "init"
    /\ attempts = {}
    /\ balance = SeedBalance
    /\ llock = "free"
    /\ tpc = [t \in Tasks |-> "idle"]
    /\ tuser = [t \in Tasks |-> NoUser]
    /\ tamount = [t \in Tasks |-> 0]
    /\ tres = [t \in Tasks |-> "none"]
    /\ now = 0
    /\ slept = FALSE
    /\ admitted = [e \in 1..MaxEvents |-> [at |-> 0, ahead |-> 0]]
    /\ nextId = 0
    /\ results = <<>>
    /\ responses = <<>>
    /\ extracted = <<>>
    /\ inserts = <<>>
    /\ stop_accepted = {}
    /\ drains = <<>>

\* Lines 314-316: the application's buffer has the default max_size.
Init ==
    /\ InitCommon
    /\ max_size = MAX_QUEUE_SIZE
    /\ lpc = "l_init"
    /\ cfg_batch_size = BATCH_SIZE
    /\ cfg_batch_timeout = BATCH_TIMEOUT
    /\ timed = FALSE

\* A BatchWorker driven directly: BatchWorker(buffer, database), with
\* initialize(), start() and stop() called by the code that owns it.
InitWorker ==
    /\ InitCommon
    /\ max_size = MAX_QUEUE_SIZE
    /\ lpc = "l_worker"
    /\ cfg_batch_size = BATCH_SIZE
    /\ cfg_batch_timeout = BATCH_TIMEOUT
    /\ timed = FALSE

\* EventBuffer(max_size) on its own.
InitBuf ==
    /\ InitCommon
    /\ max_size \in MaxSizes
    /\ lpc = "l_lib"
    /\ cfg_batch_size = BATCH_SIZE
    /\ cfg_batch_timeout = BATCH_TIMEOUT
    /\ timed = FALSE

\* The application in a timed run, for every setting of the flush size and
\* the flush timeout (in poll intervals) up to the scaled ones.
InitTimed ==
    /\ InitCommon
    /\ max_size = MAX_QUEUE_SIZE
    /\ lpc = "l_init"
    /\ cfg_batch_size \in 1..BATCH_SIZE
    /\ cfg_batch_timeout \in 1..BATCH_TIMEOUT
    /\ timed = TRUE

\* ------------------------------------------------------------- add_event

\* Requests are served between startup and the end of shutdown.
Accepting == lpc \in {"l_lib", "l_worker", "l_serving", "l_await_worker", "l_drain_wait",
                      "l_drain_cs", "l_insert", "l_close"}

\* ingest_event calls add_event with a new event.
AddCall(p) ==
    /\ ppc[p] = "idle"
    /\ Accepting
    /\ nextId < MaxEvents
    /\ nextId' = nextId + 1
    /\ pevent' = [pevent EXCEPT ![p] = nextId + 1]
    /\ ppc' = [ppc EXCEPT ![p] = "add_wait"]
    /\ UNCHANGED <<bufVars, pfull, workerVars, lifeVars, clientVars, now,
                   results, extracted, inserts, stop_accepted, drains,
                   cfgVars, invVars, ledVars, dbVars, statVars, slept, admitted, responses>>

\* async with self.lock (line 105).
AddAcquire(p) ==
    /\ ppc[p] = "add_wait"
    /\ LockFree(lock)
    /\ lock' = p
    /\ ppc' = [ppc EXCEPT ![p] = "add_check"]
    /\ UNCHANGED <<max_size, queue, total_received, total_processed, total_dropped,
                   pevent, pfull, workerVars, lifeVars, clientVars, now, histVars,
                   cfgVars, invVars, ledVars, dbVars, statVars, slept, admitted, responses>>

\* if len(self.queue) >= MAX_QUEUE_SIZE (line 106).
AddCheck(p) ==
    /\ ppc[p] = "add_check"
    /\ pfull' = [pfull EXCEPT ![p] = QueueFull(queue)]
    /\ ppc' = [ppc EXCEPT ![p] = "add_apply"]
    /\ UNCHANGED <<bufVars, pevent, workerVars, lifeVars, clientVars, now, histVars,
                   cfgVars, invVars, ledVars, dbVars, statVars, slept, admitted, responses>>

\* Lines 107-108 or 110-112, then the lock is released and the call returns.
AddApply(p) ==
    /\ ppc[p] = "add_apply"
    /\ IF pfull[p]
         THEN /\ total_dropped' = total_dropped + 1
              /\ UNCHANGED <<queue, total_received>>
         ELSE /\ queue' = DequeAppend(queue, pevent[p], max_size)
              /\ total_received' = total_received + 1
              /\ UNCHANGED total_dropped
    /\ results' = Append(results, <<pevent[p], ~pfull[p]>>)
    /\ responses' = Append(responses, Respond(~pfull[p]))
    /\ admitted' = IF timed /\ ~pfull[p]
                     THEN [admitted EXCEPT ![pevent[p]] = [at |-> now, ahead |-> Len(queue)]]
                     ELSE admitted
    /\ lock' = "free"
    /\ ppc' = [ppc EXCEPT ![p] = "idle"]
    /\ pevent' = [pevent EXCEPT ![p] = 0]
    /\ pfull' = [pfull EXCEPT ![p] = FALSE]
    /\ UNCHANGED <<max_size, total_processed, workerVars, lifeVars, clientVars, now,
                   nextId, extracted, inserts, stop_accepted, drains,
                   cfgVars, invVars, ledVars, dbVars, statVars, slept>>

\* ----------------------------------------------------------- BatchWorker

\* First step of the task created on line 339: self.running = True and the
\* first test of "while self.running".
WorkerStart ==
    /\ wpc = "w_init"
    /\ running' = TRUE
    /\ wpc' = "w_stats_wait"
    /\ UNCHANGED <<bufVars, prodVars, last_batch_time, w_queue_size, w_current_time,
                   w_batch, w_inserted, w_call, lifeVars, clientVars, now, histVars,
                   cfgVars, invVars, ledVars, dbVars, statVars, slept, admitted, responses>>

\* _process_batch, line 277: get_stats takes the lock.
WorkerStatsAcquire ==
    /\ wpc = "w_stats_wait"
    /\ LockFree(lock)
    /\ lock' = "worker"
    /\ wpc' = "w_stats_cs"
    /\ UNCHANGED <<max_size, queue, total_received, total_processed, total_dropped,
                   prodVars, running, last_batch_time, w_queue_size, w_current_time,
                   w_batch, w_inserted, w_call, lifeVars, clientVars, now, histVars,
                   cfgVars, invVars, ledVars, dbVars, statVars, slept, admitted, responses>>

\* Lines 277-290: the snapshot, the clock read and the flush decision.
WorkerDecide ==
    /\ wpc = "w_stats_cs"
    /\ lock' = "free"
    /\ w_queue_size' = GetStats(queue, total_received, total_processed,
                                total_dropped).queue_size
    /\ w_current_time' = now
    /\ wpc' = IF ShouldProcess(Len(queue), now - last_batch_time)
                THEN "w_batch_wait" ELSE "w_sleep"
    /\ UNCHANGED <<max_size, queue, total_received, total_processed, total_dropped,
                   prodVars, running, last_batch_time, w_batch, w_inserted, w_call,
                   lifeVars, clientVars, now, histVars,
                   cfgVars, invVars, ledVars, dbVars, statVars, slept, admitted, responses>>

\* Line 292: get_batch takes the lock.
WorkerBatchAcquire ==
    /\ wpc = "w_batch_wait"
    /\ LockFree(lock)
    /\ lock' = "worker"
    /\ wpc' = "w_batch_cs"
    /\ UNCHANGED <<max_size, queue, total_received, total_processed, total_dropped,
                   prodVars, running, last_batch_time, w_queue_size, w_current_time,
                   w_batch, w_inserted, w_call, lifeVars, clientVars, now, histVars,
                   cfgVars, invVars, ledVars, dbVars, statVars, slept, admitted, responses>>

\* Lines 292-296: get_batch(BATCH_SIZE); a non-empty batch is handed to
\* insert_batch, an empty one ends the poll.
WorkerGetBatch ==
    /\ wpc = "w_batch_cs"
    /\ LET r == GetBatch(queue, cfg_batch_size) IN
         /\ w_batch' = r[1]
         /\ queue' = r[2]
         /\ extracted' = extracted \o r[1]
         /\ IF r[1] # <<>>
              THEN /\ inserts' = Append(inserts,
                                   [by |-> "worker", batch |-> r[1], ok |-> "pending",
                                    at |-> db, before |-> queue,
                                    t |-> w_current_time])
                   /\ w_call' = Len(inserts) + 1
                   /\ wpc' = "w_insert"
              ELSE /\ UNCHANGED <<inserts, w_call>>
                   /\ wpc' = "w_sleep"
    /\ lock' = LockAfterGetBatch("worker")
    /\ UNCHANGED <<max_size, total_received, total_processed, total_dropped, prodVars,
                   running, last_batch_time, w_queue_size, w_current_time, w_inserted,
                   lifeVars, clientVars, now, nextId, results, stop_accepted, drains,
                   cfgVars, invVars, ledVars, dbVars, statVars, slept, admitted, responses>>

\* Lines 296-306: insert_batch returns len(batch) or 0.  A failed write
\* ends the poll with last_batch_time reset.
WorkerInsertReturn ==
    /\ wpc = "w_insert"
    /\ \E ok \in InsertOutcomes(db) :
         LET inserted == InsertReturn(ok, w_batch) IN
           /\ inserts' = [inserts EXCEPT ![w_call].ok = IF ok THEN "yes" ELSE "no"]
           /\ IF ok
                THEN /\ rows' = CommitRows(rows, txn, w_batch)
                     /\ txn' = <<>>
                ELSE /\ \E k \in FailedPrefixes(db, w_batch) :
                          txn' = KeepRows(txn, w_batch, k)
                     /\ UNCHANGED rows
           /\ w_inserted' = inserted
           /\ IF inserted > 0
                THEN /\ wpc' = "w_mark_wait"
                     /\ UNCHANGED last_batch_time
                ELSE /\ wpc' = AfterFailedWrite
                     /\ last_batch_time' = ResetFlushTime(last_batch_time, w_current_time)
    /\ w_call' = 0
    /\ UNCHANGED <<bufVars, prodVars, running, w_queue_size, w_current_time, w_batch,
                   lifeVars, clientVars, now, nextId, results, extracted,
                   stop_accepted, drains,
                   cfgVars, invVars, ledVars, statVars, slept, admitted, responses>>

\* Line 299: async with self.buffer.lock.
WorkerMarkAcquire ==
    /\ wpc = "w_mark_wait"
    /\ LockFree(lock)
    /\ lock' = "worker"
    /\ wpc' = "w_mark_cs"
    /\ UNCHANGED <<max_size, queue, total_received, total_processed, total_dropped,
                   prodVars, running, last_batch_time, w_queue_size, w_current_time,
                   w_batch, w_inserted, w_call, lifeVars, clientVars, now, histVars,
                   cfgVars, invVars, ledVars, dbVars, statVars, slept, admitted, responses>>

\* Lines 300-306: total_processed += inserted, then last_batch_time is reset.
WorkerMark ==
    /\ wpc = "w_mark_cs"
    /\ total_processed' = Processed(total_processed, w_inserted)
    /\ lock' = "free"
    /\ last_batch_time' = ResetFlushTime(last_batch_time, w_current_time)
    /\ wpc' = "w_sleep"
    /\ UNCHANGED <<max_size, queue, total_received, total_dropped, prodVars, running,
                   w_queue_size, w_current_time, w_batch, w_inserted, w_call,
                   lifeVars, clientVars, now, histVars,
                   cfgVars, invVars, ledVars, dbVars, statVars, slept, admitted, responses>>

\* Lines 270-273: an exception raised in the poll is caught in start(),
\* which sleeps one second and goes on.  No statement of _process_batch
\* raises by itself (insert_batch catches its own errors); the handler is
\* exercised by an exception at the poll's first await.
WorkerException ==
    /\ wpc = "w_stats_wait"
    /\ wpc' = "w_backoff"
    /\ UNCHANGED <<bufVars, prodVars, running, last_batch_time, w_queue_size,
                   w_current_time, w_batch, w_inserted, w_call, lifeVars, clientVars,
                   now, histVars,
                   cfgVars, invVars, ledVars, dbVars, statVars, slept, admitted, responses>>

\* Lines 266-273: the sleep (after a poll or after an exception) ends and
\* "while self.running" is tested again.
WorkerWake ==
    /\ wpc \in {"w_sleep", "w_backoff"}
    /\ timed => slept
    /\ slept' = FALSE
    /\ wpc' = IF LoopContinues(running) THEN "w_stats_wait" ELSE "w_done"
    /\ UNCHANGED <<bufVars, prodVars, running, last_batch_time, w_queue_size,
                   w_current_time, w_batch, w_inserted, w_call, lifeVars, clientVars,
                   now, histVars,
                   cfgVars, invVars, ledVars, dbVars, statVars, admitted, responses>>

\* -------------------------------------------------------------- lifespan

\* Lines 337-344: initialize the database, create the worker task, yield.
\* A failing initialize raises out of lifespan before the task is created.
LifespanStartup ==
    /\ lpc = "l_init"
    /\ \E ok \in BOOLEAN :
         IF ok
           THEN /\ db' = "open"
                /\ wpc' = StartupWorker(ok)
                /\ lpc' = "l_serving"
           ELSE /\ lpc' = "l_failed"
                /\ wpc' = StartupWorker(ok)
                /\ UNCHANGED db
    /\ UNCHANGED <<bufVars, prodVars, running, last_batch_time, w_queue_size,
                   w_current_time, w_batch, w_inserted, w_call, remaining_batch,
                   l_call, clientVars, now, histVars,
                   cfgVars, invVars, ledVars, dbVars, statVars, slept, admitted, responses>>

\* The worker task is suspended: in a sleep or in insert_batch's I/O.  Taking
\* the buffer lock never suspends it, because no holder of the lock awaits
\* while holding it.
WorkerSuspended == wpc \in {"w_sleep", "w_backoff", "w_insert"}

\* Line 350: batch_worker.stop().  stop() is a plain call made by the
\* lifespan task, so it runs while the worker task is suspended; the worker
\* task, made ready on line 339, has run its first step before the shutdown
\* message is delivered.
LifespanStop ==
    /\ lpc = "l_serving"
    /\ WorkerSuspended
    /\ running' = FALSE
    /\ lpc' = "l_await_worker"
    /\ stop_accepted' = {r[1] : r \in {x \in SeqToSet(results) : x[2]}}
    /\ UNCHANGED <<bufVars, prodVars, wpc, last_batch_time, w_queue_size,
                   w_current_time, w_batch, w_inserted, w_call, db, remaining_batch,
                   l_call, clientVars, now, nextId, results, extracted, inserts, drains,
                   cfgVars, invVars, ledVars, dbVars, statVars, slept, admitted, responses>>

\* Line 351: await worker_task returns once start() has returned.
LifespanJoin ==
    /\ lpc = "l_await_worker"
    /\ WorkerFinished(wpc)
    /\ lpc' = "l_drain_wait"
    /\ UNCHANGED <<bufVars, prodVars, workerVars, db, remaining_batch, l_call,
                   clientVars, now, histVars,
                   cfgVars, invVars, ledVars, dbVars, statVars, slept, admitted, responses>>

\* Line 354: get_batch takes the lock.
LifespanDrainAcquire ==
    /\ lpc = "l_drain_wait"
    /\ LockFree(lock)
    /\ lock' = "lifespan"
    /\ lpc' = "l_drain_cs"
    /\ UNCHANGED <<max_size, queue, total_received, total_processed, total_dropped,
                   prodVars, workerVars, db, remaining_batch, l_call, clientVars, now,
                   histVars,
                   cfgVars, invVars, ledVars, dbVars, statVars, slept, admitted, responses>>

\* Lines 354-357: remaining_batch = get_batch(MAX_QUEUE_SIZE); when it is
\* not empty it is handed to insert_batch.
LifespanDrain ==
    /\ lpc = "l_drain_cs"
    /\ LET r == GetBatch(queue, DrainCount) IN
         /\ remaining_batch' = r[1]
         /\ queue' = r[2]
         /\ extracted' = extracted \o r[1]
         /\ drains' = Append(drains, [n |-> DrainCount, before |-> queue,
                                    batch |-> r[1], after |-> r[2], worker |-> wpc])
         /\ IF r[1] # <<>>
              THEN /\ inserts' = Append(inserts,
                                   [by |-> "drain", batch |-> r[1], ok |-> "pending",
                                    at |-> db, before |-> queue, t |-> now])
                   /\ l_call' = Len(inserts) + 1
                   /\ lpc' = "l_insert"
              ELSE /\ UNCHANGED <<inserts, l_call>>
                   /\ lpc' = "l_close"
    /\ lock' = LockAfterGetBatch("lifespan")
    /\ UNCHANGED <<max_size, total_received, total_processed, total_dropped, prodVars,
                   workerVars, db, clientVars, now, nextId, results, stop_accepted,
                   cfgVars, invVars, ledVars, dbVars, statVars, slept, admitted, responses>>

\* Line 357: insert_batch returns; its result is discarded.
LifespanInsertReturn ==
    /\ lpc = "l_insert"
    /\ \E ok \in InsertOutcomes(db) :
         /\ inserts' = [inserts EXCEPT ![l_call].ok = IF ok THEN "yes" ELSE "no"]
         /\ IF ok
              THEN /\ rows' = CommitRows(rows, txn, remaining_batch)
                   /\ txn' = <<>>
              ELSE /\ \E k \in FailedPrefixes(db, remaining_batch) :
                        txn' = KeepRows(txn, remaining_batch, k)
                   /\ UNCHANGED rows
    /\ l_call' = 0
    /\ lpc' = "l_close"
    /\ UNCHANGED <<bufVars, prodVars, workerVars, db, remaining_batch, clientVars, now,
                   nextId, results, extracted, stop_accepted, drains,
                   cfgVars, invVars, ledVars, statVars, slept, admitted, responses>>

\* Line 359: event_database.close().  Closing the connection does not
\* commit: the rows of the open transaction are lost.
LifespanClose ==
    /\ lpc = "l_close"
    /\ db' = "closed"
    /\ txn' = <<>>
    /\ UNCHANGED rows
    /\ lpc' = "l_done"
    /\ UNCHANGED <<bufVars, prodVars, workerVars, remaining_batch, l_call, clientVars,
                   now, histVars,
                   cfgVars, invVars, ledVars, statVars, slept, admitted, responses>>

\* ------------------------------------- a direct owner of a BatchWorker

\* await database.initialize() returns (lines 156-180).
DriverInitialize ==
    /\ lpc = "l_worker"
    /\ db = "none"
    /\ db' = "open"
    /\ UNCHANGED <<bufVars, prodVars, workerVars, lpc, remaining_batch, l_call,
                   clientVars, now, histVars, cfgVars, invVars, ledVars, dbVars, statVars, slept, admitted, responses>>

\* asyncio.create_task(worker.start()): the task is ready, not yet run.
DriverStart ==
    /\ lpc = "l_worker"
    /\ wpc = "w_none"
    /\ wpc' = "w_init"
    /\ UNCHANGED <<bufVars, prodVars, running, last_batch_time, w_queue_size,
                   w_current_time, w_batch, w_inserted, w_call, lifeVars, clientVars,
                   now, histVars, cfgVars, invVars, ledVars, dbVars, statVars, slept, admitted, responses>>

\* worker.stop() (lines 308-311), called once, while the worker task is not
\* executing: before start(), before the task's first step, or while the
\* task is suspended.
DriverStop ==
    /\ lpc = "l_worker"
    /\ cpc = "c_idle"
    /\ wpc \in {"w_none", "w_init"} \/ WorkerSuspended
    /\ running' = FALSE
    /\ cpc' = "c_stopped"
    /\ UNCHANGED <<bufVars, prodVars, wpc, last_batch_time, w_queue_size,
                   w_current_time, w_batch, w_inserted, w_call, lifeVars, c_n,
                   now, histVars, cfgVars, invVars, ledVars, dbVars, statVars, slept, admitted, responses>>

\* ---------------------------------------- a direct caller of get_batch

\* get_batch(n) called on the buffer (SpecBuf).
ClientCall ==
    /\ lpc = "l_lib"
    /\ cpc = "c_idle"
    /\ \E n \in 1..(MAX_QUEUE_SIZE + 1) : c_n' = n
    /\ cpc' = "c_wait"
    /\ UNCHANGED <<bufVars, prodVars, workerVars, lifeVars, now, histVars,
                   cfgVars, invVars, ledVars, dbVars, statVars, slept, admitted, responses>>

ClientAcquire ==
    /\ cpc = "c_wait"
    /\ LockFree(lock)
    /\ lock' = "client"
    /\ cpc' = "c_cs"
    /\ UNCHANGED <<max_size, queue, total_received, total_processed, total_dropped,
                   prodVars, workerVars, lifeVars, c_n, now, histVars,
                   cfgVars, invVars, ledVars, dbVars, statVars, slept, admitted, responses>>

ClientGetBatch ==
    /\ cpc = "c_cs"
    /\ LET r == GetBatch(queue, c_n) IN
         /\ queue' = r[2]
         /\ extracted' = extracted \o r[1]
    /\ lock' = LockAfterGetBatch("client")
    /\ cpc' = "c_idle"
    /\ c_n' = 0
    /\ UNCHANGED <<max_size, total_received, total_processed, total_dropped, prodVars,
                   workerVars, lifeVars, now, nextId, results, inserts, stop_accepted,
                   drains,
                   cfgVars, invVars, ledVars, dbVars, statVars, slept, admitted, responses>>

\* ---------------------------------------- a direct caller of get_stats

\* get_stats() called on the buffer (SpecBuf).
StatsCall ==
    /\ lpc = "l_lib"
    /\ spc = "s_idle"
    /\ Len(stats_calls) < MaxStats
    /\ spc' = "s_wait"
    /\ UNCHANGED <<bufVars, prodVars, workerVars, lifeVars, clientVars, now, histVars,
                   cfgVars, invVars, ledVars, dbVars, slept, admitted, responses, stats_calls>>

\* async with self.lock (line 130).
StatsAcquire ==
    /\ spc = "s_wait"
    /\ LockFree(lock)
    /\ lock' = "stats"
    /\ spc' = "s_cs"
    /\ UNCHANGED <<max_size, queue, total_received, total_processed, total_dropped,
                   prodVars, workerVars, lifeVars, clientVars, now, histVars,
                   cfgVars, invVars, ledVars, dbVars, slept, admitted, responses, stats_calls>>

\* Lines 131-136: the four values are read, the lock is released and the
\* dictionary is returned.
StatsRead ==
    /\ spc = "s_cs"
    /\ stats_calls' = Append(stats_calls,
           [result |-> GetStats(queue, total_received, total_processed, total_dropped),
            seen |-> <<queue, total_received, total_processed, total_dropped>>])
    /\ lock' = "free"
    /\ spc' = "s_idle"
    /\ UNCHANGED <<max_size, queue, total_received, total_processed, total_dropped,
                   prodVars, workerVars, lifeVars, clientVars, now, histVars,
                   cfgVars, invVars, ledVars, dbVars, slept, admitted, responses>>

\* ----------------------------------------------------------------- clock

\* time.time() advances.
Tick ==
    /\ IF timed
         THEN /\ lpc = "l_serving"
              /\ wpc = "w_sleep"
              /\ ~slept
              /\ \A p \in Producers : ppc[p] = "idle"
              /\ now < TimedHorizon
         ELSE /\ lpc \in {"l_serving", "l_await_worker"}
              /\ now < MaxTime
    /\ now' = now + WORKER_SLEEP
    /\ slept' = timed
    /\ UNCHANGED <<bufVars, prodVars, workerVars, lifeVars, clientVars, histVars,
                   cfgVars, invVars, ledVars, dbVars, statVars, admitted, responses>>

\* -------------------------------------------------------- InventorySystem

\* A buyer's request reaches purchase_item (app.py line 295).
PurchaseCall(b) ==
    /\ lpc = "l_inv"
    /\ bpc[b] = "idle"
    /\ bpc' = [bpc EXCEPT ![b] = "begin"]
    /\ attempts' = attempts \cup {b}
    /\ UNCHANGED <<fireVars, ledVars, stock, purchases, dblock, bres, admin_ops, sold, last_admin>>

\* app.py line 119: BEGIN IMMEDIATE takes the database's write lock.
BeginImmediate(b) ==
    /\ bpc[b] = "begin"
    /\ dblock = "free"
    /\ dblock' = b
    /\ bpc' = [bpc EXCEPT ![b] = "body"]
    /\ UNCHANGED <<fireVars, ledVars, stock, purchases, bres, admin_ops, sold, last_admin, attempts>>

\* app.py lines 119, 165-168: the lock stayed taken for LOCK_TIMEOUT seconds;
\* BEGIN IMMEDIATE raises "database is locked" and the call returns
\* "Server busy".
BeginTimeout(b) ==
    /\ bpc[b] = "begin"
    /\ dblock # "free"
    /\ bres' = [bres EXCEPT ![b] = "busy"]
    /\ bpc' = [bpc EXCEPT ![b] = "done"]
    /\ UNCHANGED <<fireVars, ledVars, stock, purchases, dblock, admin_ops, sold, last_admin, attempts>>

\* app.py lines 120-173: the rest of the transaction, its commit or rollback
\* and the returned result; the lock is released with the connection.
PurchaseBody(b) ==
    /\ bpc[b] = "body"
    /\ LET r == PurchaseTxn(stock, purchases) IN
         /\ bres' = [bres EXCEPT ![b] = r[1]]
         /\ stock' = r[2]
         /\ purchases' = r[3]
         /\ sold' = IF r[1] = "ok" THEN sold + 1 ELSE sold
    /\ dblock' = "free"
    /\ bpc' = [bpc EXCEPT ![b] = "done"]
    /\ UNCHANGED <<fireVars, ledVars, admin_ops, last_admin, attempts>>

\* app.py lines 221-243: reset_inventory sets the stock and deletes the
\* purchase records in one transaction.
ResetInventory ==
    /\ lpc = "l_inv"
    /\ admin_ops < MaxAdminOps
    /\ dblock = "free"
    /\ stock' = INITIAL_STOCK
    /\ purchases' = 0
    /\ sold' = 0
    /\ last_admin' = "reset"
    /\ attempts' = {}
    /\ admin_ops' = admin_ops + 1
    /\ UNCHANGED <<fireVars, ledVars, dblock, bpc, bres>>

\* app.py lines 18-50, 380-383: a server process starts; init_database's
\* INSERT OR REPLACE sets the stock and leaves the purchases table alone.
InitDatabase ==
    /\ lpc = "l_inv"
    /\ admin_ops < MaxAdminOps
    /\ dblock = "free"
    /\ stock' = INITIAL_STOCK
    /\ last_admin' = "init"
    /\ attempts' = {}
    /\ admin_ops' = admin_ops + 1
    /\ UNCHANGED <<fireVars, ledVars, purchases, dblock, bpc, bres, sold>>

\* ---------------------------------------------------------- legacy_ledger

\* Lines 162-198: POST /transaction queues process_transaction_background
\* with a positive amount; the task starts with a sleep (line 120).
TransactionCall(t) ==
    /\ lpc = "l_ledger"
    /\ tpc[t] = "idle"
    /\ \E u \in UserIds, a \in Amounts :
         /\ tuser' = [tuser EXCEPT ![t] = u]
         /\ tamount' = [tamount EXCEPT ![t] = a]
    /\ tpc' = [tpc EXCEPT ![t] = "sleep"]
    /\ UNCHANGED <<fireVars, invVars, balance, llock, tres>>

\* Line 127: BEGIN IMMEDIATE succeeds when no other connection holds the
\* write lock.
TxnBegin(t) ==
    /\ tpc[t] = "sleep"
    /\ llock = "free"
    /\ llock' = LockAfterBegin(t)
    /\ tpc' = [tpc EXCEPT ![t] = "select"]
    /\ UNCHANGED <<fireVars, invVars, balance, tuser, tamount, tres>>

\* Lines 127, 157-160: the lock stayed taken for the connection's busy
\* timeout; BEGIN IMMEDIATE raises and the handler returns the error.
TxnBeginTimeout(t) ==
    /\ tpc[t] = "sleep"
    /\ llock \notin {"free", t}
    /\ tres' = [tres EXCEPT ![t] = "error"]
    /\ tpc' = [tpc EXCEPT ![t] = "done"]
    /\ UNCHANGED <<fireVars, invVars, balance, llock, tuser, tamount>>

\* Lines 130-143: the row is read; a missing user or a balance below the
\* amount rolls back and returns, which closes the connection.
TxnSelect(t) ==
    /\ tpc[t] = "select"
    /\ IF tuser[t] \notin DOMAIN balance
         THEN /\ tres' = [tres EXCEPT ![t] = "not_found"]
              /\ tpc' = [tpc EXCEPT ![t] = "done"]
              /\ llock' = "free"
         ELSE IF ~Sufficient(balance[tuser[t]], tamount[t])
         THEN /\ tres' = [tres EXCEPT ![t] = "insufficient"]
              /\ tpc' = [tpc EXCEPT ![t] = "done"]
              /\ llock' = "free"
         ELSE /\ tpc' = [tpc EXCEPT ![t] = "update"]
              /\ UNCHANGED <<tres, llock>>
    /\ UNCHANGED <<fireVars, invVars, balance, tuser, tamount>>

\* Lines 147-160: UPDATE ... SET balance = balance - ? and commit, or an
\* exception in either, which is rolled back; the connection is closed.
TxnUpdate(t) ==
    /\ tpc[t] = "update"
    /\ \E ok \in BOOLEAN :
         IF ok
           THEN /\ balance' = [balance EXCEPT ![tuser[t]] = @ - tamount[t]]
                /\ tres' = [tres EXCEPT ![t] = "processed"]
           ELSE /\ tres' = [tres EXCEPT ![t] = "error"]
                /\ UNCHANGED balance
    /\ llock' = "free"
    /\ tpc' = [tpc EXCEPT ![t] = "done"]
    /\ UNCHANGED <<fireVars, invVars, tuser, tamount>>

\* ------------------------------------------------------- specifications

Next ==
    \/ \E p \in Producers : AddCall(p)
    \/ \E p \in Producers : AddAcquire(p)
    \/ \E p \in Producers : AddCheck(p)
    \/ \E p \in Producers : AddApply(p)
    \/ WorkerStart
    \/ WorkerStatsAcquire
    \/ WorkerDecide
    \/ WorkerBatchAcquire
    \/ WorkerGetBatch
    \/ WorkerInsertReturn
    \/ WorkerMarkAcquire
    \/ WorkerMark
    \/ WorkerException
    \/ WorkerWake
    \/ LifespanStartup
    \/ LifespanStop
    \/ LifespanJoin
    \/ LifespanDrainAcquire
    \/ LifespanDrain
    \/ LifespanInsertReturn
    \/ LifespanClose
    \/ Tick

Spec == Init /\ [][Next]_vars

NextBuf ==
    \/ \E p \in Producers : AddCall(p)
    \/ \E p \in Producers : AddAcquire(p)
    \/ \E p \in Producers : AddCheck(p)
    \/ \E p \in Producers : AddApply(p)
    \/ ClientCall
    \/ ClientAcquire
    \/ ClientGetBatch
    \/ StatsCall
    \/ StatsAcquire
    \/ StatsRead

SpecBuf == InitBuf /\ [][NextBuf]_vars

NextWorker ==
    \/ \E p \in Producers : AddCall(p)
    \/ \E p \in Producers : AddAcquire(p)
    \/ \E p \in Producers : AddCheck(p)
    \/ \E p \in Producers : AddApply(p)
    \/ WorkerStart
    \/ WorkerStatsAcquire
    \/ WorkerDecide
    \/ WorkerBatchAcquire
    \/ WorkerGetBatch
    \/ WorkerInsertReturn
    \/ WorkerMarkAcquire
    \/ WorkerMark
    \/ WorkerException
    \/ WorkerWake
    \/ DriverInitialize
    \/ DriverStart
    \/ DriverStop

SpecWorker == InitWorker /\ [][NextWorker]_vars

\* InventorySystem after its first start (init_database has run).
InitInv ==
    /\ InitCommon
    /\ max_size = MAX_QUEUE_SIZE
    /\ lpc = "l_inv"
    /\ cfg_batch_size = BATCH_SIZE
    /\ cfg_batch_timeout = BATCH_TIMEOUT
    /\ timed = FALSE

NextInv ==
    \/ \E b \in Buyers : PurchaseCall(b)
    \/ \E b \in Buyers : BeginImmediate(b)
    \/ \E b \in Buyers : BeginTimeout(b)
    \/ \E b \in Buyers : PurchaseBody(b)
    \/ ResetInventory
    \/ InitDatabase

SpecInv == InitInv /\ [][NextInv]_vars

\* The ledger after init_db.
InitLedger ==
    /\ InitCommon
    /\ max_size = MAX_QUEUE_SIZE
    /\ lpc = "l_ledger"
    /\ cfg_batch_size = BATCH_SIZE
    /\ cfg_batch_timeout = BATCH_TIMEOUT
    /\ timed = FALSE

NextLedger ==
    \/ \E t \in Tasks : TransactionCall(t)
    \/ \E t \in Tasks : TxnBegin(t)
    \/ \E t \in Tasks : TxnBeginTimeout(t)
    \/ \E t \in Tasks : TxnSelect(t)
    \/ \E t \in Tasks : TxnUpdate(t)

SpecLedger == InitLedger /\ [][NextLedger]_vars

\* The steps of the worker task when no poll raises.
WorkerStep ==
    \/ WorkerStart
    \/ WorkerStatsAcquire
    \/ WorkerDecide
    \/ WorkerBatchAcquire
    \/ WorkerGetBatch
    \/ WorkerInsertReturn
    \/ WorkerMarkAcquire
    \/ WorkerMark
    \/ WorkerWake

\* The steps of a request inside add_event.
AddStep == \E p \in Producers : AddAcquire(p) \/ AddCheck(p) \/ AddApply(p)

\* add_event never suspends (the lock is free whenever a request runs), so
\* in a timed run the requests are served one at a time.
TimedProducers == {"p1"}

\* A timed run of the serving application: the worker sleeps WORKER_SLEEP
\* between polls, every other step takes no time, and no poll raises.
NextTimed ==
    \/ \E p \in TimedProducers : AddCall(p)
    \/ \E p \in TimedProducers : AddAcquire(p)
    \/ \E p \in TimedProducers : AddCheck(p)
    \/ \E p \in TimedProducers : AddApply(p)
    \/ WorkerStart
    \/ WorkerStatsAcquire
    \/ WorkerDecide
    \/ WorkerBatchAcquire
    \/ WorkerGetBatch
    \/ WorkerInsertReturn
    \/ WorkerMarkAcquire
    \/ WorkerMark
    \/ WorkerWake
    \/ LifespanStartup
    \/ Tick

\* The event loop runs every ready task, and the clock advances.
SpecTimed ==
    /\ InitTimed
    /\ [][NextTimed]_vars
    /\ WF_vars(WorkerStep)
    /\ WF_vars(AddStep)
    /\ WF_vars(Tick)

\* ---------------------------------------------------- history operators

IsAccepted(r) == r[2]
IsRejected(r) == ~r[2]

\* The events for which add_event returned True, in the order they were appended.
Accepted ==
    LET a == SelectSeq(results, IsAccepted) IN [i \in 1..Len(a) |-> a[i][1]]

\* The events for which add_event returned False.
Rejected ==
    LET a == SelectSeq(results, IsRejected) IN [i \in 1..Len(a) |-> a[i][1]]

\* All batches of a log of insert_batch calls, concatenated in call order.
RECURSIVE Flatten(_)
Flatten(log) == IF log = <<>> THEN <<>> ELSE log[1].batch \o Flatten(Tail(log))

IsDrainCall(c) == c.by = "drain"
IsFailedWorkerCall(c) == c.by = "worker" /\ c.ok = "no"

\* Events the worker has extracted and not yet either counted or given up.
WorkerHolding == IF wpc \in {"w_insert", "w_mark_wait", "w_mark_cs"} THEN Len(w_batch) ELSE 0

\* Events extracted from the queue that total_processed does not count: held
\* by the worker, in a batch whose write failed, or in the drain's batch.
Unprocessed ==
    WorkerHolding
    + Len(Flatten(SelectSeq(inserts, IsFailedWorkerCall)))
    + Len(Flatten(SelectSeq(inserts, IsDrainCall)))

NoAddInProgress == \A p \in Producers : ppc[p] = "idle"

\* ------------------------------------------------------------------ C1
\* C1 as stated: in every reachable state
\* total_received == total_processed + total_dropped + queue_size.
C1_Stated == total_received = total_processed + total_dropped + Len(queue)

\* C1, amended: for the application's buffer, in every reachable state
\* total_received == total_processed + queue_size + the extracted events not
\* counted as processed (held by the worker, in a failed write, or in the
\* drain's batch); total_dropped is the number of rejected add_event calls
\* and is not part of total_received.
C1_Accounting ==
    /\ total_received = total_processed + Len(queue) + Unprocessed
    /\ total_dropped = Len(Rejected)
    /\ total_received = Len(Accepted)

\* A drop, a successful worker write and a failed worker write have all happened.
C1_Witness ==
    /\ total_dropped > 0
    /\ total_processed > 0
    /\ \E i \in 1..Len(inserts) : IsFailedWorkerCall(inserts[i])
    /\ wpc = "w_sleep"

\* ------------------------------------------------------------------ C2
\* C2: with capacity C = max_size and no extraction, once N > C add_event
\* calls have completed, exactly C returned True and N - C returned False,
\* total_dropped == N - C and queue_size == C.
C2_Backpressure ==
    (/\ extracted = <<>>
     /\ cpc = "c_idle"
     /\ NoAddInProgress
     /\ Len(results) > max_size)
    => /\ Len(Accepted) = max_size
       /\ Len(Rejected) = Len(results) - max_size
       /\ total_dropped = Len(results) - max_size
       /\ Len(queue) = max_size

\* ------------------------------------------------------------------ C3
\* C3: an accepted event leaves the queue only by being returned from
\* get_batch: every accepted event is still queued or has been extracted.
C3_NoEviction ==
    \A i \in 1..Len(Accepted) :
        Accepted[i] \in SeqToSet(queue) \cup SeqToSet(extracted)

\* ------------------------------------------------------------------ C4
\* C4: in every reachable state the number of queued events is at most the
\* max_size the EventBuffer was constructed with.
C4_QueueBounded == Len(queue) <= max_size

\* A buffer smaller than MAX_QUEUE_SIZE is full and a further add_event has completed.
C4_Witness ==
    /\ max_size < MAX_QUEUE_SIZE
    /\ Len(queue) = max_size
    /\ Len(results) > max_size
    /\ extracted = <<>>

\* ------------------------------------------------------------------ C5
\* C5: add_event at or above capacity returns False, increments total_dropped
\* by 1 and leaves queue, total_received and total_processed unchanged; below
\* capacity it appends the event at the tail, increments total_received by 1,
\* leaves total_dropped unchanged and returns True.
C5_AddEventStep(p) ==
    (ppc[p] = "add_apply" /\ ppc'[p] = "idle") =>
        IF Len(queue) >= max_size
          THEN /\ results' = Append(results, <<pevent[p], FALSE>>)
               /\ total_dropped' = total_dropped + 1
               /\ UNCHANGED <<queue, total_received, total_processed>>
          ELSE /\ results' = Append(results, <<pevent[p], TRUE>>)
               /\ queue' = Append(queue, pevent[p])
               /\ total_received' = total_received + 1
               /\ UNCHANGED <<total_dropped, total_processed>>

C5_AddEventContract == [][\A p \in Producers : C5_AddEventStep(p)]_vars

\* ------------------------------------------------------------------ C6
\* C6: every queue mutation and counter update happens while its actor holds
\* the buffer lock (so at most one actor is inside a critical section), no
\* rejected event is queued or extracted, and no counter increment is lost:
\* total_received and total_dropped equal the numbers of add_event calls that
\* returned True and False.
C6_LockDiscipline ==
    /\ \A p \in Producers : ppc[p] \in {"add_check", "add_apply"} => lock = p
    /\ wpc \in {"w_stats_cs", "w_batch_cs", "w_mark_cs"} => lock = "worker"
    /\ lpc = "l_drain_cs" => lock = "lifespan"
    /\ cpc = "c_cs" => lock = "client"
    /\ total_received = Len(Accepted)
    /\ total_dropped = Len(Rejected)
    /\ total_received + total_dropped = Len(results)
    /\ SeqToSet(Rejected) \cap (SeqToSet(queue) \cup SeqToSet(extracted)) = {}

\* One add_event is inside its critical section while another add_event and
\* the worker's total_processed update wait for the lock.
C6_Witness ==
    /\ ppc["p1"] = "add_apply"
    /\ ppc["p2"] = "add_wait"
    /\ wpc = "w_mark_wait"

\* ------------------------------------------------------------------ C7
\* C7: the events handed to insert_batch, taken batch after batch and in
\* order within each batch (worker flushes, then the drain), are exactly the
\* first accepted events in the order add_event accepted them.
C7_Fifo ==
    LET f == Flatten(inserts) IN
        /\ Len(f) <= Len(Accepted)
        /\ \A k \in 1..Len(f) : f[k] = Accepted[k]

\* Two worker batches and a drain batch were written, and the events were not
\* accepted in the order their requests started.
C7_Witness ==
    /\ Len(inserts) >= 3
    /\ inserts[Len(inserts)].by = "drain"
    /\ Len(Accepted) >= 2
    /\ Accepted[1] > Accepted[2]

\* ------------------------------------------------------------------ C8
\* C8: when event_database.close() has been called, every event accepted
\* before stop() was called has been handed to insert_batch.
C8_AttemptedBeforeClose ==
    db = "closed" => stop_accepted \subseteq SeqToSet(Flatten(inserts))

\* The database is closed; MAX_QUEUE_SIZE events were still queued when the
\* drain ran, after the worker had flushed an earlier batch.
C8_Witness ==
    /\ db = "closed"
    /\ Len(drains) = 1
    /\ Len(drains[1].batch) = MAX_QUEUE_SIZE
    /\ SeqToSet(drains[1].batch) \subseteq stop_accepted
    /\ \E i \in 1..Len(inserts) : inserts[i].by = "worker"

\* ------------------------------------------------------------------ C9
\* C9: if n events are admitted, shutdown runs before any worker flush and
\* the drain's write succeeds, then after shutdown total_processed == n.
C9_DrainCounted ==
    (/\ lpc = "l_done"
     /\ NoAddInProgress
     /\ SeqToSet(Accepted) = stop_accepted
     /\ \A i \in 1..Len(inserts) : inserts[i].by = "drain" /\ inserts[i].ok = "yes")
    => total_processed = Len(Accepted)

\* ----------------------------------------------------------------- C10
\* C10: the shutdown drain calls get_batch at most once, after the worker
\* has stopped, with max_count equal to the capacity; that call takes the
\* whole queue and leaves it empty; its batch is handed to insert_batch
\* exactly once when it is not empty and never otherwise, whether or not the
\* write succeeds.
DrainCalls == SelectSeq(inserts, IsDrainCall)

C10_SingleDrain ==
    /\ Len(drains) <= 1
    /\ \A i \in 1..Len(drains) :
         /\ drains[i].worker = "w_done"
         /\ drains[i].n = max_size
         /\ drains[i].batch = drains[i].before
         /\ drains[i].after = <<>>
         /\ IF drains[i].batch = <<>>
              THEN DrainCalls = <<>>
              ELSE Len(DrainCalls) = 1 /\ DrainCalls[1].batch = drains[i].batch
    /\ drains = <<>> => DrainCalls = <<>>

\* Shutdown has completed; the drain took more events than one worker batch
\* holds and its write failed.
C10_Witness ==
    /\ lpc = "l_done"
    /\ Len(drains) = 1
    /\ Len(drains[1].batch) > BATCH_SIZE
    /\ Len(DrainCalls) = 1
    /\ DrainCalls[1].ok = "no"

\* ----------------------------------------------------------------- C11
\* C11: close() is called only after the drain's insert_batch has returned;
\* once close() has been called no insert_batch call is in flight and none
\* starts.
C11_CloseAfterWrites ==
    /\ \A i \in 1..Len(inserts) : inserts[i].at # "closed"
    /\ db = "closed" =>
         /\ \A i \in 1..Len(inserts) : inserts[i].ok # "pending"
         /\ w_call = 0 /\ l_call = 0
         /\ Len(drains) = 1
         /\ wpc = "w_done"

\* The database is closed after a drain write that succeeded and a worker
\* write that failed.
C11_Witness ==
    /\ db = "closed"
    /\ Len(DrainCalls) = 1
    /\ DrainCalls[1].ok = "yes"
    /\ \E i \in 1..Len(inserts) : IsFailedWorkerCall(inserts[i])

\* ----------------------------------------------------------------- C12
\* C12: total_processed changes only after the worker's latest insert_batch
\* reported success, and then by exactly the length of that batch; get_batch
\* and a failed write leave it unchanged, so it never exceeds the number of
\* events of successful writes.
IsWorkerCall(c) == c.by = "worker"
IsSuccessfulCall(c) == c.ok = "yes"
WorkerCalls == SelectSeq(inserts, IsWorkerCall)

C12_Step ==
    total_processed' # total_processed =>
        /\ WorkerCalls # <<>>
        /\ WorkerCalls[Len(WorkerCalls)].ok = "yes"
        /\ total_processed' = total_processed + Len(WorkerCalls[Len(WorkerCalls)].batch)
        /\ inserts' = inserts
        /\ queue' = queue

C12_ProcessedAfterSuccess ==
    /\ [][C12_Step]_vars
    /\ [](total_processed <= Len(Flatten(SelectSeq(inserts, IsSuccessfulCall))))

\* A successful worker write of BATCH_SIZE events has been counted and a
\* worker write of BATCH_SIZE events failed.
C12_Witness ==
    /\ total_processed = BATCH_SIZE
    /\ \E i \in 1..Len(inserts) :
         IsFailedWorkerCall(inserts[i]) /\ Len(inserts[i].batch) = BATCH_SIZE

\* ----------------------------------------------------------------- C13
\* C13: when a worker write fails, the batch is not put back into the queue,
\* total_processed is unchanged, last_batch_time is set to the poll's
\* current_time, and no event of that batch is passed to insert_batch again.
C13_FailureStep ==
    (wpc = "w_insert" /\ w_call # 0 /\ inserts'[w_call].ok = "no") =>
        /\ queue' = queue
        /\ total_processed' = total_processed
        /\ last_batch_time' = w_current_time
        /\ wpc' \notin {"w_mark_wait", "w_mark_cs"}

C13_NeverAgain ==
    \A i \in 1..Len(inserts) :
        inserts[i].ok = "no" =>
            /\ SeqToSet(inserts[i].batch) \cap SeqToSet(queue) = {}
            /\ \A j \in 1..Len(inserts) :
                 j # i => SeqToSet(inserts[i].batch) \cap SeqToSet(inserts[j].batch) = {}

LastFlushTime == IF WorkerCalls = <<>> THEN 0 ELSE WorkerCalls[Len(WorkerCalls)].t

C14_Due ==
    \/ Len(queue) >= BATCH_SIZE
    \/ (Len(queue) > 0 /\ now - LastFlushTime >= BATCH_TIMEOUT)

C14_PollStep ==
    /\ (wpc = "w_stats_cs" /\ wpc' # wpc) =>
         /\ wpc' \in {"w_batch_wait", "w_sleep"}
         /\ wpc' = "w_batch_wait" <=> C14_Due
         /\ UNCHANGED <<queue, total_received, total_processed, total_dropped,
                        last_batch_time, inserts, extracted>>
    /\ (wpc = "w_batch_cs" /\ wpc' # wpc) =>
         /\ Len(inserts') = Len(inserts) + 1
         /\ wpc' = "w_insert"
    /\ (wpc \in {"w_sleep", "w_backoff", "w_stats_wait", "w_batch_wait"} /\ wpc' # wpc) =>
         UNCHANGED <<queue, total_received, total_processed, total_dropped,
                     last_batch_time, inserts, extracted>>

C14_FlushTrigger == [][C14_PollStep]_vars

\* The worker has flushed on the timeout (fewer than BATCH_SIZE events
\* queued) and a later poll found events queued and did not flush.
C14_Witness ==
    /\ \E i \in 1..Len(inserts) :
         inserts[i].by = "worker" /\ Len(inserts[i].before) < BATCH_SIZE
    /\ wpc = "w_sleep"
    /\ w_queue_size > 0
    /\ w_current_time = LastFlushTime
    /\ Len(queue) > 0

\* ----------------------------------------------------------------- C15
\* C15: every batch a worker flush passes to insert_batch is non-empty, has
\* at most BATCH_SIZE events and consists of the first
\* min(queue_size at extraction, BATCH_SIZE) events of the queue.
C15_BatchShape ==
    \A i \in 1..Len(inserts) :
        inserts[i].by = "worker" =>
            LET b == inserts[i].batch
                q == inserts[i].before
                k == IF Len(q) < BATCH_SIZE THEN Len(q) ELSE BATCH_SIZE
            IN /\ b # <<>>
               /\ Len(b) <= BATCH_SIZE
               /\ Len(b) = k
               /\ b = SubSeq(q, 1, k)

\* One worker flush took BATCH_SIZE events out of a longer queue and another
\* took the only event queued.
C15_Witness ==
    /\ \E i \in 1..Len(inserts) :
         inserts[i].by = "worker" /\ Len(inserts[i].before) > BATCH_SIZE
    /\ \E i \in 1..Len(inserts) :
         inserts[i].by = "worker" /\ Len(inserts[i].before) = 1

\* ----------------------------------------------------------------- C16
\* Time from the admission of event e to current_time of the poll of write c.
Latency(c, e) == c.t - admitted[e].at

\* Time event e has been queued.
Age(e) == now - admitted[e].at

LatencyBound(ahead) ==
    cfg_batch_timeout + WORKER_SLEEP * (ahead \div cfg_batch_size)

DrainTime == MAX_QUEUE_SIZE * WORKER_SLEEP

\* No add_event call is left to come or in progress.
AdmissionsStopped == nextId = MaxEvents /\ \A p \in Producers : ppc[p] = "idle"

\* C17: a flush takes at most the flush size even when more is queued, and
\* once admissions have stopped, with the worker polling and the clock
\* advancing, the queue becomes empty.
C17_BacklogDrains ==
    /\ [](\A i \in 1..Len(inserts) :
            inserts[i].by = "worker" => Len(inserts[i].batch) <= cfg_batch_size)
    /\ (AdmissionsStopped /\ lpc = "l_serving" /\ now + DrainTime <= TimedHorizon)
         ~> (queue = <<>>)

\* Admissions have stopped and the queue is empty after a flush that left
\* events behind and a later flush, one timeout later, of fewer events than
\* the flush size.
C17_Witness ==
    /\ AdmissionsStopped
    /\ queue = <<>>
    /\ \E i \in 1..Len(inserts) :
         /\ inserts[i].by = "worker"
         /\ Len(inserts[i].before) > cfg_batch_size
         /\ \E j \in (i + 1)..Len(inserts) :
              /\ Len(inserts[j].before) < cfg_batch_size
              /\ inserts[j].t >= inserts[i].t + cfg_batch_timeout

\* ----------------------------------------------------------------- C18
\* C18: a failed worker write or an exception inside a poll never ends the
\* worker loop: the worker stays running and goes to a sleep; the loop ends
\* only after stop(); a sleeping worker that is still running polls again;
\* and a started worker that has not ended always has a step to take (or
\* waits for a lock that another coroutine holds).
C18_FailureStep ==
    /\ (wpc = "w_insert" /\ w_call # 0 /\ inserts'[w_call].ok = "no") =>
         (running' = running /\ wpc' = "w_sleep")
    /\ (wpc' = "w_backoff" /\ wpc # "w_backoff") => running' = running
    /\ (wpc \in {"w_sleep", "w_backoff"} /\ wpc' # wpc) =>
         (IF running THEN wpc' = "w_stats_wait" ELSE wpc' = "w_done")
    /\ (wpc' = "w_done" /\ wpc # "w_done") => ~running

C18_NotStuck ==
    /\ wpc = "w_done" => (~running /\ lpc # "l_serving")
    /\ wpc \notin {"w_none", "w_done"} =>
         (ENABLED WorkerStep \/ lock \notin {"free", "worker"})

C18_WorkerSurvives == [][C18_FailureStep]_vars /\ []C18_NotStuck

\* After a failed worker write and a later exception inside a poll the
\* worker, still running, has made a successful write.
C18_Witness ==
    /\ running
    /\ \E i \in 1..Len(inserts) :
         /\ IsFailedWorkerCall(inserts[i])
         /\ \E j \in (i + 1)..Len(inserts) :
              /\ inserts[j].by = "worker"
              /\ inserts[j].ok = "yes"
              /\ inserts[j].t > inserts[i].t
    /\ wpc = "w_backoff"

\* ----------------------------------------------------------------- C19
\* C19: the worker is created and runs only after initialize() succeeded;
\* when initialize() fails, startup fails, no worker task exists, the worker
\* is never running and no extraction or write happens.
C19_WorkerAfterInit ==
    /\ (wpc # "w_none" \/ running) => db \in {"open", "closed"}
    /\ lpc = "l_init" => (wpc = "w_none" /\ ~running)
    /\ lpc = "l_failed" =>
         /\ wpc = "w_none"
         /\ ~running
         /\ db = "none"
         /\ inserts = <<>>
         /\ extracted = <<>>
         /\ total_processed = 0

\* initialize() failed: startup has failed and no worker task exists.
C19_Witness ==
    /\ lpc = "l_failed"
    /\ wpc = "w_none"
    /\ ~running

\* ----------------------------------------------------------------- C20
\* C20: once stop() has been called no iteration of the worker loop starts,
\* and every extraction made after it is the shutdown drain's.
C20_Step ==
    /\ (wpc' = "w_stats_wait" /\ wpc # "w_stats_wait") =>
         (running' /\ lpc' = "l_serving")
    /\ (extracted' # extracted /\ lpc # "l_serving") =>
         (lpc = "l_drain_cs" /\ wpc = "w_done" /\ wpc' = "w_done")

C20_NoPollAfterStop == [][C20_Step]_vars

\* stop() was called while a flush was due; the worker has ended without
\* flushing and the drain has taken the events.
C20_Witness ==
    /\ wpc = "w_done"
    /\ Len(drains) = 1
    /\ Len(drains[1].before) >= BATCH_SIZE
    /\ \A i \in 1..Len(inserts) : inserts[i].by = "drain"

\* ----------------------------------------------------------------- C21
\* stop() has been called on the worker.
StopRequested ==
    \/ lpc \in {"l_await_worker", "l_drain_wait", "l_drain_cs", "l_insert",
                "l_close", "l_done"}
    \/ cpc = "c_stopped"

\* C21: under any ordering of start() and stop(), the run state changes only
\* from stopped to running by start() and from running to stopped by stop(),
\* and a worker for which stop has been requested is never running.
C21_Step ==
    /\ (~running /\ running') => (wpc = "w_init" /\ ~StopRequested)
    /\ (running /\ ~running') => (~StopRequested /\ StopRequested')

C21_StopWins == [][C21_Step]_vars /\ [](StopRequested => ~running)

\* ----------------------------------------------------------------- C22
\* An insert_batch call of the worker or of the shutdown drain is in flight.
WriteInFlight == wpc = "w_insert" \/ lpc = "l_insert"

\* C22: while an insert_batch call is in flight neither the worker nor the
\* lifespan holds the buffer lock, so a request waiting in add_event can take
\* the lock as soon as no other request holds it, and then complete.
C22_LockFreeDuringWrite ==
    WriteInFlight =>
        /\ lock \in {"free"} \cup Producers
        /\ \A p \in Producers :
             /\ (ppc[p] = "add_wait" /\ lock = "free") => ENABLED AddAcquire(p)
             /\ ppc[p] = "add_check" => ENABLED AddCheck(p)
             /\ ppc[p] = "add_apply" => ENABLED AddApply(p)

\* During a worker write a request has taken the lock and is completing
\* add_event, and an earlier request made during the same write was accepted.
C22_Witness ==
    /\ wpc = "w_insert"
    /\ \E p \in Producers : ppc[p] = "add_apply" /\ lock = p
    /\ Len(queue) > Len(inserts[w_call].before) - Len(inserts[w_call].batch)

\* ----------------------------------------------------------------- C23
\* C23: at most one insert_batch call is in flight: a call starts only when
\* every earlier call has returned, and the drain's call starts only after
\* the worker task has finished.
C23_SingleWriter ==
    /\ \A i \in 1..Len(inserts) :
         inserts[i].ok = "pending" => i = Len(inserts)
    /\ ~(wpc = "w_insert" /\ lpc = "l_insert")
    /\ lpc = "l_insert" => (wpc = "w_done" /\ w_call = 0)
    /\ \A i \in 1..Len(inserts) :
         inserts[i].by = "drain" =>
           \A j \in 1..Len(inserts) : (j > i => inserts[j].by = "drain")

\* The drain's write is in flight after two worker writes have returned.
C23_Witness ==
    /\ lpc = "l_insert"
    /\ Len(WorkerCalls) >= 2
    /\ inserts[Len(inserts)].ok = "pending"

\* ----------------------------------------------------------------- C24
\* C24: get_stats changes no field of the buffer; what it returns is the
\* queue length and the three counters of the one state it read; and two
\* calls that read the same queue and counters return the same result.
C24_ReadStep ==
    (spc = "s_cs" /\ spc' # spc) =>
        /\ UNCHANGED <<max_size, queue, total_received, total_processed, total_dropped>>
        /\ Len(stats_calls') = Len(stats_calls) + 1
        /\ LET r == stats_calls'[Len(stats_calls')].result IN
             /\ r.queue_size = Len(queue)
             /\ r.total_received = total_received
             /\ r.total_processed = total_processed
             /\ r.total_dropped = total_dropped

C24_SameState ==
    \A i, j \in 1..Len(stats_calls) :
        stats_calls[i].seen = stats_calls[j].seen =>
            stats_calls[i].result = stats_calls[j].result

C24_StatsSnapshot == [][C24_ReadStep]_vars /\ []C24_SameState

\* Two get_stats calls with nothing admitted or extracted in between returned
\* the same result, with events queued and events rejected.
C24_Witness ==
    /\ Len(stats_calls) = 2
    /\ stats_calls[1].seen = stats_calls[2].seen
    /\ stats_calls[1].result = stats_calls[2].result
    /\ stats_calls[2].result.queue_size > 0
    /\ stats_calls[2].result.total_dropped > 0

\* ----------------------------------------------------------------- C25
\* C25: no step of add_event, get_batch, get_stats, a worker flush, stop()
\* or the shutdown drain decreases or resets total_received, total_processed
\* or total_dropped.
C25_Step ==
    /\ total_received' >= total_received
    /\ total_processed' >= total_processed
    /\ total_dropped' >= total_dropped

C25_CountersMonotone == [][C25_Step]_vars

\* The application has shut down after events were accepted, rejected and
\* counted as processed in two worker writes.
C25_Witness ==
    /\ lpc = "l_done"
    /\ total_received > 0
    /\ total_dropped > 0
    /\ total_processed > BATCH_SIZE

\* ----------------------------------------------------------------- C26
\* C26: every submission is answered 202 or 503; 202 exactly when add_event
\* returned True; 503 exactly when it returned False, and then the event is
\* never queued or extracted; the answer depends on the queue length alone
\* and answers already given never change, whatever insert_batch returned.
C26_Outcomes ==
    /\ Len(responses) = Len(results)
    /\ \A i \in 1..Len(responses) :
         /\ responses[i] \in {202, 503}
         /\ responses[i] = 202 <=> results[i][2]
         /\ responses[i] = 503 =>
              results[i][1] \notin SeqToSet(queue) \cup SeqToSet(extracted)

C26_Step ==
    /\ Len(responses') >= Len(responses)
    /\ SubSeq(responses', 1, Len(responses)) = responses
    /\ \A p \in Producers :
         (ppc[p] = "add_check" /\ ppc'[p] = "add_apply") =>
             (pfull'[p] <=> Len(queue) >= MAX_QUEUE_SIZE)
    /\ Len(responses') > Len(responses) =>
         \E p \in Producers :
             /\ ppc[p] = "add_apply"
             /\ responses'[Len(responses')] = (IF pfull[p] THEN 503 ELSE 202)

C26_TwoOutcomes == []C26_Outcomes /\ [][C26_Step]_vars

\* Submissions were answered 202 and another 503, and a worker write of
\* accepted events failed.
C26_Witness ==
    /\ \E i \in 1..Len(inserts) : IsFailedWorkerCall(inserts[i])
    /\ \E i \in 1..Len(responses) : responses[i] = 503
    /\ \E j \in 1..Len(responses) : responses[j] = 202

\* ----------------------------------------------------------------- C27
\* C27: get_batch(max_count) removes the first min(max_count, queue size)
\* events of the queue and returns them in order, leaves the rest of the
\* queue in order, returns an empty list on an empty queue and changes no
\* counter.
C27_Step ==
    (cpc = "c_cs" /\ cpc' # cpc) =>
        LET k == IF c_n < Len(queue) THEN c_n ELSE Len(queue) IN
        /\ extracted' = extracted \o SubSeq(queue, 1, k)
        /\ queue' = SubSeq(queue, k + 1, Len(queue))
        /\ queue = <<>> => extracted' = extracted
        /\ UNCHANGED <<total_received, total_processed, total_dropped>>

C27_GetBatchContract == [][C27_Step]_vars

\* get_batch has returned two or more events and left events queued, on a
\* buffer that never lost an event.
C27_Witness ==
    /\ cpc = "c_idle"
    /\ Len(extracted) >= 2
    /\ queue # <<>>
    /\ total_received = Len(extracted) + Len(queue)

\* ----------------------------------------------------------------- C28
\* C28: insert_batch is all-or-nothing: after a call that returned
\* len(events) every event of its batch is a committed row, and no event of
\* a batch whose call returned 0 is ever a committed row.
C28_AllOrNothing ==
    \A i \in 1..Len(inserts) :
        /\ inserts[i].ok = "yes" => SeqToSet(inserts[i].batch) \subseteq SeqToSet(rows)
        /\ inserts[i].ok = "no" => SeqToSet(inserts[i].batch) \cap SeqToSet(rows) = {}

\* ----------------------------------------------------------------- C29
\* C29: under every interleaving of purchase_item calls the stock is never
\* negative and the number of successful purchases since the last reset
\* never exceeds INITIAL_STOCK.
C29_NoOverselling ==
    /\ stock >= 0
    /\ sold <= INITIAL_STOCK
    /\ purchases <= INITIAL_STOCK

\* Every buyer's call has returned, one of them after giving up on the lock
\* another buyer held, and a server process has started in between.
C29_Witness ==
    /\ \A b \in Buyers : bpc[b] = "done"
    /\ \E b \in Buyers : bres[b] = "busy"
    /\ \E b \in Buyers : bres[b] \notin {"busy", "none"}
    /\ admin_ops > 0

\* ----------------------------------------------------------------- C30
\* C30: when at least INITIAL_STOCK buyers have each begun one purchase
\* attempt after a reset, with no other reset or restart since, and every
\* attempt has returned, exactly INITIAL_STOCK attempts succeeded, the stock
\* is 0 and there are exactly INITIAL_STOCK purchase records.
C30_NoUnderselling ==
    (/\ last_admin = "reset"
     /\ attempts = Buyers
     /\ Cardinality(Buyers) >= INITIAL_STOCK
     /\ \A b \in Buyers : bpc[b] = "done") =>
        /\ Cardinality({b \in Buyers : bres[b] = "ok"}) = INITIAL_STOCK
        /\ stock = 0
        /\ purchases = INITIAL_STOCK

\* ----------------------------------------------------------------- C31
\* The buyer's purchase_item call returns in this step.
Returns(b) == bpc[b] # "done" /\ bpc'[b] = "done"

C31_Step ==
    \A b \in Buyers :
        Returns(b) =>
            IF bres'[b] = "ok"
            THEN stock' = stock - 1 /\ purchases' = purchases + 1
            ELSE stock' = stock /\ purchases' = purchases

\* C31: purchase_item is atomic: a call that returns success has decremented
\* the stock by exactly 1 and added exactly one purchase record, and a call
\* that returns anything else (sold out, lock timeout, any error) has left
\* the stock and the purchase records as they were.
C31_Atomic == [][C31_Step]_vars

\* A call that held the write lock and a call that timed out waiting for it
\* have both returned without success, after a reset.
C31_Witness ==
    /\ last_admin = "reset"
    /\ \E b \in attempts : bpc[b] = "done" /\ bres[b] = "error"
    /\ \E b \in attempts : bpc[b] = "done" /\ bres[b] = "busy"
    /\ stock = INITIAL_STOCK
    /\ purchases = 0

\* ----------------------------------------------------------------- C37
\* C37: in every reachable state, after any sequence of purchase_item,
\* reset_inventory and init_database calls, the stock plus the number of
\* purchase records equals INITIAL_STOCK.
C37_Conservation == stock + purchases = INITIAL_STOCK

\* A server restart (init_database) has followed a reset and purchase_item
\* calls that returned, and another call has returned since the restart.
C37_Witness ==
    /\ last_admin = "init"
    /\ admin_ops >= 2
    /\ \E b \in Buyers : b \notin attempts /\ bpc[b] = "done" /\ bres[b] = "error"
    /\ \E b \in attempts : bpc[b] = "done"

\* ----------------------------------------------------------------- C33
\* C33: no event is passed to insert_batch more than once: over all worker
\* flushes and the shutdown drain, each event is in at most one batch (and
\* at most once in it).
C33_AtMostOnce ==
    LET f == Flatten(inserts) IN
        \A i, j \in 1..Len(f) : f[i] = f[j] => i = j

\* A worker write failed, another call followed it and the drain wrote a
\* batch too; at least three events were passed in all.
C33_Witness ==
    /\ \E i \in 1..Len(inserts) :
         /\ IsFailedWorkerCall(inserts[i])
         /\ i < Len(inserts)
    /\ inserts[Len(inserts)].by = "drain"
    /\ Len(Flatten(inserts)) >= 3

\* ----------------------------------------------------------------- C36
\* C36: in every reachable state total_processed + queue_size is at most
\* total_received; total_received equals the number of queued events plus
\* the number of events extracted so far; and total_processed is at most the
\* number of extracted events.
C36_ProcessedBounded ==
    /\ total_processed + Len(queue) <= total_received
    /\ total_received = Len(queue) + Len(extracted)
    /\ total_processed <= Len(extracted)

\* Events are queued, the worker has counted one batch and holds or has lost
\* another, so that total_processed is strictly below the extracted count.
C36_Witness ==
    /\ queue # <<>>
    /\ total_processed > 0
    /\ total_processed < Len(extracted)

\* ----------------------------------------------------------------- C35
\* C35: when shutdown has completed (the database has been closed and
\* lifespan has returned), the queue is empty and every event whose
\* add_event returned True, also one admitted while the shutdown sequence
\* was running, has been passed to insert_batch.
C35_NothingLeft ==
    lpc = "l_done" =>
        /\ queue = <<>>
        /\ SeqToSet(Accepted) \subseteq SeqToSet(Flatten(inserts))

\* ----------------------------------------------------------------- C34
\* The worker task tests "while self.running" in this step: on its first
\* execution or when a sleep ends.
LoopTest == wpc \in {"w_init", "w_sleep", "w_backoff"} /\ wpc' # wpc

\* C34: for every ordering of stop() relative to the worker task's first
\* execution and to failures inside the loop, once stop() has been called
\* the worker's next test of the loop condition ends the loop (so that the
\* await of the worker task, the drain and the close can follow), and a
\* worker that has ended stays ended.
C34_Step ==
    /\ (StopRequested /\ LoopTest) => wpc' = "w_done"
    /\ wpc = "w_done" => wpc' = "w_done"

C34_ShutdownTerminates == [][C34_Step]_vars

\* ----------------------------------------------------------------- C32
\* The task's process_transaction_background call returns in this step.
TxnReturns(t) == tpc[t] # "done" /\ tpc'[t] = "done"

C32_Step ==
    \A t \in Tasks :
        TxnReturns(t) =>
            IF tres'[t] = "processed"
            THEN /\ tuser[t] \in DOMAIN balance
                 /\ balance[tuser[t]] >= tamount[t]
                 /\ balance' = [balance EXCEPT ![tuser[t]] = @ - tamount[t]]
            ELSE balance' = balance

\* C32: process_transaction_background deducts the amount only when the user
\* exists and balance >= amount; a rejected or failed transaction leaves
\* every balance unchanged; balances change in no other step; and under any
\* interleaving of concurrent transactions no balance becomes negative.
C32_NoOverdraft ==
    /\ [][C32_Step]_vars
    /\ [][(balance' # balance) => \E t \in Tasks : TxnReturns(t)]_vars
    /\ [](\A u \in DOMAIN balance : balance[u] >= 0)

\* Concurrent transactions on the same user: one was processed, one was
\* rejected for insufficient balance and one failed (on the write lock or in
\* its update).
C32_Witness ==
    /\ \A t \in Tasks : tpc[t] = "done" /\ tuser[t] = 1
    /\ balance[1] < SeedBalance[1]
    /\ \E t \in Tasks : tres[t] = "processed"
    /\ \E t \in Tasks : tres[t] = "insufficient"
    /\ \E t \in Tasks : tres[t] = "error"

=============================================================================
